---- MODULE Spec2Model ----
(***************************************************************************)
(* A model of the synchronous HTTP -> HTTPS forward proxy of src/main.rs:  *)
(* tls_config::build, http_parser::extract_host, tls_connector::connect,   *)
(* http_forwarder::forward_request, proxy_handler::handle_client and the   *)
(* accept loop of main.                                                    *)
(*                                                                         *)
(* Text and byte strings are sequences of one-character strings.           *)
(***************************************************************************)
EXTENDS Integers, Sequences, FiniteSets, TLC

VARIABLES
    \* -- the process (main) -------------------------------------------------
    mainPc,       \* position of main: "bind", "build", "accept", "handle", "exit_err"
    listener,     \* the listening socket: "unbound", "bound", "closed"
    tls_config,   \* the Arc<ClientConfig> of main, NoConfig before it is built
    nBuilds,      \* number of successful calls of tls_config::build
    acceptErrs,   \* number of failed accepts reported so far
    \* -- one entry per inbound client connection ------------------------------
    cst,          \* the client connection: "idle", "queued", "accepted", "closed"
    cIn,          \* bytes sent by the client and not yet read by the proxy
    cShut,        \* the client has shut down its sending side
    hpc,          \* position of handle_client: "idle", "read", "extract", "connect",
                  \*   "forward", "forward_read", "write", "ok", "err", "returned"
    cfgArg,       \* the tls_config argument of handle_client
    request_str,  \* local request_str of handle_client
    host,         \* local host of handle_client
    tls,          \* local tls_stream of handle_client, NoSession when there is none:
                  \*   hs is "pending", "complete" or "failed", peer the certificate
                  \*   the upstream presented
    response,     \* local response of handle_client
    upOut,        \* application bytes delivered to the upstream over the session
    upSent,       \* bytes the upstream sent over the session
    clientOut,    \* bytes written to the client socket
    result,       \* how handle_client ended: "none", "Ok" or the kind of error
    nSessions,    \* number of outbound sessions created for the connection
    nTcp,         \* number of outbound TCP connections attempted for the connection
    nReads,       \* number of read calls made on the client socket
    \* -- calls of the pure functions -----------------------------------------
    pin,          \* argument of the function call under test (a request text)
    pout,         \* its result, NotRun before the call
    fhost,        \* argument host of the two calls of forward_request
    fresp,        \* the response the upstream sends in both calls
    frun          \* the two calls of forward_request, each on a session of its
                  \*   own: position "write", "read", "ok" or "err", the bytes the
                  \*   upstream got (sent) and the buffer returned (ret)

\* ------------------------------------------------------------------------
\* Bounds of the model
\* ------------------------------------------------------------------------
MaxTokens == 4          \* request texts are built from at most so many tokens
MaxConns == 2           \* inbound client connections
MaxCerts == 1           \* certificate authorities in the world
MaxRespLen == 2         \* length of an upstream response
MaxAcceptErrs == 1      \* failed accepts

\* ------------------------------------------------------------------------
\* Program constants
\* ------------------------------------------------------------------------
BufSize == 4096         \* let mut buffer = [0; 4096]
HttpsPort == 443        \* TcpStream::connect((host.as_str(), 443))

\* ------------------------------------------------------------------------
\* Characters and strings
\* ------------------------------------------------------------------------
CR == "\r"
LF == "\n"
TAB == "\t"

UpperLetters == <<"A", "B", "C", "D", "E", "F", "G", "H", "I", "J", "K", "L", "M",
                  "N", "O", "P", "Q", "R", "S", "T", "U", "V", "W", "X", "Y", "Z">>
LowerLetters == <<"a", "b", "c", "d", "e", "f", "g", "h", "i", "j", "k", "l", "m",
                  "n", "o", "p", "q", "r", "s", "t", "u", "v", "w", "x", "y", "z">>

\* F applied to the value of v: a let binding whose value is computed once,
\* however often F refers to it
Let(v, F(_)) == CHOOSE r \in {F(x) : x \in {v}} : TRUE

\* char::to_lowercase on the characters of the model (ASCII letters fold,
\* everything else is unchanged)
LowerChar(ch) ==
    IF \E i \in 1..26 : UpperLetters[i] = ch
    THEN LowerLetters[CHOOSE i \in 1..26 : UpperLetters[i] = ch]
    ELSE ch

\* str::to_lowercase
to_lowercase(s) == [i \in 1..Len(s) |-> LowerChar(s[i])]

\* str::starts_with
starts_with(s, p) == Len(s) >= Len(p) /\ SubSeq(s, 1, Len(p)) = p

\* char::is_whitespace on the characters of the model
IsWhitespace(ch) == ch \in {" ", TAB, CR, LF}

\* str::trim_start_matches: the pattern is removed from the front for as
\* long as it matches
RECURSIVE trim_start_matches(_, _)
trim_start_matches(s, p) ==
    IF p # <<>> /\ starts_with(s, p)
    THEN trim_start_matches(SubSeq(s, Len(p) + 1, Len(s)), p)
    ELSE s

\* str::trim: leading and trailing whitespace removed
trim(s) ==
    LET keep == {i \in 1..Len(s) : ~IsWhitespace(s[i])}
        lo   == CHOOSE i \in keep : \A j \in keep : i <= j
        hi   == CHOOSE i \in keep : \A j \in keep : j <= i
    IN  IF keep = {} THEN <<>> ELSE SubSeq(s, lo, hi)

\* str::split_inclusive('\n'): pieces that keep their terminating '\n'
RECURSIVE SplitInclusive(_)
SplitInclusive(s) ==
    IF s = <<>> THEN <<>>
    ELSE LET nl == {i \in 1..Len(s) : s[i] = LF}
             i  == CHOOSE k \in nl : \A j \in nl : k <= j
         IN  IF nl = {} THEN <<s>>
             ELSE <<SubSeq(s, 1, i)>> \o Let(SubSeq(s, i + 1, Len(s)), SplitInclusive)

\* the line without its "\n" or "\r\n" ending; a piece without '\n' is kept
\* whole
StripLineEnding(l) ==
    IF l # <<>> /\ l[Len(l)] = LF
    THEN LET m == SubSeq(l, 1, Len(l) - 1)
         IN  IF m # <<>> /\ m[Len(m)] = CR THEN SubSeq(m, 1, Len(m) - 1) ELSE m
    ELSE l

\* str::lines
lines(s) ==
    Let(SplitInclusive(s),
        LAMBDA pieces : [i \in 1..Len(pieces) |-> StripLineEnding(pieces[i])])

\* ------------------------------------------------------------------------
\* Results
\* ------------------------------------------------------------------------
Ok(v)  == [ok |-> TRUE,  val |-> v]
Err(e) == [ok |-> FALSE, val |-> e]
NotRun == [ok |-> FALSE, val |-> "not run"]

\* ------------------------------------------------------------------------
\* http_parser::extract_host
\* ------------------------------------------------------------------------
HostMarkerLower == <<"h", "o", "s", "t", ":">>
HostMarker      == <<"H", "o", "s", "t", ":">>

extract_host(request) ==
    Let(lines(request), LAMBDA ls :
        LET found == {i \in 1..Len(ls) : starts_with(to_lowercase(ls[i]), HostMarkerLower)}
            first == CHOOSE i \in found : \A j \in found : i <= j
        IN  IF found = {} THEN Err("Missing Host header")
            ELSE Ok(Let(Let(ls[first], LAMBDA line : trim_start_matches(line, HostMarker)),
                        trim)))

\* ------------------------------------------------------------------------
\* Request texts: concatenations of at most MaxTokens tokens
\* ------------------------------------------------------------------------
Tokens == << <<"H", "o", "s", "t", ":">>,
             <<"h", "o", "s", "t", ":">>,
             <<"H", "O", "S", "T", ":">>,
             <<" ">>,
             <<"a">>,
             <<CR, LF>>,
             <<LF>> >>

RECURSIVE Concat(_)
Concat(ts) == IF ts = <<>> THEN <<>> ELSE Head(ts) \o Concat(Tail(ts))

TokenSeqs(n) == UNION {[1..k -> 1..Len(Tokens)] : k \in 0..n}

RequestTexts(n) == {Concat([i \in DOMAIN f |-> Tokens[f[i]]]) : f \in TokenSeqs(n)}


\* ------------------------------------------------------------------------
\* tls_config::build
\* ------------------------------------------------------------------------
CAs == 1..MaxCerts

\* a certificate of the OS store: its authority, and whether it is well-formed
StoreCerts == [ca : CAs, der_ok : BOOLEAN]

\* what load_native_certs().certs can return
NativeStores == UNION {[1..k -> StoreCerts] : k \in 0..MaxCerts}

NoConfig == [built |-> FALSE, roots |-> {}, client_auth |-> FALSE]

\* the loop root_store.add(cert)? over native_certs: the first malformed
\* certificate ends it with the error
RECURSIVE AddAll(_, _)
AddAll(root_store, certs) ==
    IF certs = <<>> THEN Ok(root_store)
    ELSE IF ~Head(certs).der_ok THEN Err("TrustStoreError")
    ELSE AddAll(root_store \cup {Head(certs).ca}, Tail(certs))

build(native_certs) ==
    LET r == AddAll({}, native_certs)
    IN  IF r.ok THEN Ok([built |-> TRUE, roots |-> r.val, client_auth |-> FALSE])
        ELSE r

\* ------------------------------------------------------------------------
\* proxy_handler::handle_client: the bytes read become text
\* ------------------------------------------------------------------------
BadByte == "0xFF"               \* a byte that is not valid UTF-8
ReplacementChar == "U+FFFD"

\* String::from_utf8_lossy
from_utf8_lossy(bytes) ==
    [i \in 1..Len(bytes) |-> IF bytes[i] = BadByte THEN ReplacementChar ELSE bytes[i]]

Min(a, b) == IF a <= b THEN a ELSE b

\* the requests a client may send
ClientRequests ==
    { \* GET /x HTTP/1.1, no Host line
      <<"G", "E", "T", " ", "/", "x", " ", "H", "T", "T", "P", "/", "1", ".", "1", CR, LF, CR, LF>>,
      \* GET /x HTTP/1.1, Host: a.b
      <<"G", "E", "T", " ", "/", "x", " ", "H", "T", "T", "P", "/", "1", ".", "1", CR, LF,
        "H", "o", "s", "t", ":", " ", "a", ".", "b", CR, LF, CR, LF>>,
      \* POST /y HTTP/1.0, another header, Host: a.b, a second Host line, a body
      <<"P", "O", "S", "T", " ", "/", "y", " ", "H", "T", "T", "P", "/", "1", ".", "0", CR, LF,
        "X", ":", " ", "y", CR, LF,
        "H", "o", "s", "t", ":", " ", "a", ".", "b", CR, LF,
        "H", "o", "s", "t", ":", "c", CR, LF, CR, LF, "z">>,
      \* lower-case marker
      <<"G", "E", "T", " ", "/", " ", "H", "T", "T", "P", "/", "1", ".", "1", CR, LF,
        "h", "o", "s", "t", ":", " ", "a", ".", "b", CR, LF, CR, LF>>,
      \* Host: c, bare line feeds
      <<"H", "o", "s", "t", ":", "c", LF, LF>>,
      \* an empty Host value
      <<"H", "o", "s", "t", ":", " ", CR, LF>>,
      \* bytes that are not UTF-8, Host: c
      <<BadByte, CR, LF, "H", "o", "s", "t", ":", " ", "c", CR, LF>> }

\* ------------------------------------------------------------------------
\* tls_connector::connect
\* ------------------------------------------------------------------------
NameChars == {UpperLetters[i] : i \in 1..26} \cup {LowerLetters[i] : i \in 1..26} \cup {"_"}

\* ServerName::try_from on the characters of the model: non-empty labels of
\* letters separated by single dots (digits, hyphens and IP addresses are
\* outside the alphabet of the model)
ValidServerName(h) ==
    /\ h # <<>>
    /\ \A i \in 1..Len(h) : h[i] \in NameChars \cup {"."}
    /\ h[1] # "."
    /\ \A i \in 1..(Len(h) - 1) : ~(h[i] = "." /\ h[i + 1] = ".")

\* no peer certificate has been received
NoCert == [issuer |-> -1, subject |-> <<>>]

NoSession == [hs |-> "none", server_name |-> <<>>, addr |-> <<>>, port |-> 0, peer |-> NoCert]

\* the certificates an upstream can present: issued by an authority (0 is one
\* that no store holds) for the name asked for or for another name
OtherName == <<"o", "t", "h", "e", "r">>
UpstreamCerts(name) == [issuer : 0..MaxCerts, subject : {name, OtherName}]

\* the verification of the peer certificate in the handshake: chain, then name
CertValid(cert, name, config) ==
    cert.issuer \in config.roots /\ cert.subject = name

\* ------------------------------------------------------------------------
\* http_forwarder::forward_request
\* ------------------------------------------------------------------------
\* FormatRequest without the Connection: close header
FormatRequest_NoClose(h) ==
    <<"G", "E", "T", " ", "/", " ", "H", "T", "T", "P", "/", "1", ".", "1", CR, LF,
      "H", "o", "s", "t", ":", " ">>
    \o h \o <<CR, LF, CR, LF>>

\* format!("GET / HTTP/1.1\r\nHost: {}\r\nConnection: close\r\n\r\n", host)
FormatRequest(h) ==
    <<"G", "E", "T", " ", "/", " ", "H", "T", "T", "P", "/", "1", ".", "1", CR, LF,
      "H", "o", "s", "t", ":", " ">>
    \o h \o
    <<CR, LF, "C", "o", "n", "n", "e", "c", "t", "i", "o", "n", ":", " ",
      "c", "l", "o", "s", "e", CR, LF, CR, LF>>

\* the responses an upstream may send: p, q, p, q, ... of every length up to
\* MaxRespLen
ResponseBytes(k) == [i \in 1..k |-> IF i % 2 = 1 THEN "p" ELSE "q"]

Responses == {ResponseBytes(k) : k \in 0..MaxRespLen}

IsPrefix(p, s) == Len(p) <= Len(s) /\ SubSeq(s, 1, Len(p)) = p

\* two calls of forward_request are compared
Runs == {1, 2}

\* a call of forward_request that has not written yet
FreshRun == [pc |-> "write", sent |-> <<>>, ret |-> <<>>]

\* ------------------------------------------------------------------------
\* State
\* ------------------------------------------------------------------------
Conns == 1..MaxConns

mainVars   == <<mainPc, listener, tls_config, nBuilds, acceptErrs>>
clientVars == <<cst, cIn, cShut>>
localVars  == <<hpc, cfgArg, request_str, host, tls, response>>
wireVars   == <<upOut, upSent, clientOut>>
ghostVars  == <<result, nSessions, nTcp, nReads>>
fwdVars    == <<fhost, fresp, frun>>
callVars   == <<pin, pout, fwdVars>>

vars == <<mainVars, clientVars, localVars, wireVars, ghostVars, callVars>>

Init ==
    /\ mainPc = "bind"
    /\ listener = "unbound"
    /\ tls_config = NoConfig
    /\ nBuilds = 0
    /\ acceptErrs = 0
    /\ cst = [c \in Conns |-> "idle"]
    /\ cIn = [c \in Conns |-> <<>>]
    /\ cShut = [c \in Conns |-> FALSE]
    /\ hpc = [c \in Conns |-> "idle"]
    /\ cfgArg = [c \in Conns |-> NoConfig]
    /\ request_str = [c \in Conns |-> <<>>]
    /\ host = [c \in Conns |-> <<>>]
    /\ tls = [c \in Conns |-> NoSession]
    /\ response = [c \in Conns |-> <<>>]
    /\ upOut = [c \in Conns |-> <<>>]
    /\ upSent = [c \in Conns |-> <<>>]
    /\ clientOut = [c \in Conns |-> <<>>]
    /\ result = [c \in Conns |-> "none"]
    /\ nSessions = [c \in Conns |-> 0]
    /\ nTcp = [c \in Conns |-> 0]
    /\ pin = <<>>
    /\ pout = NotRun
    /\ nReads = [c \in Conns |-> 0]
    /\ fhost = <<>>
    /\ fresp = <<>>
    /\ frun = [i \in Runs |-> FreshRun]

\* ------------------------------------------------------------------------
\* main
\* ------------------------------------------------------------------------
\* let listener = TcpListener::bind("127.0.0.1:8080")?;
Bind ==
    /\ mainPc = "bind"
    /\ \/ listener' = "bound" /\ mainPc' = "build"
       \/ listener' = listener /\ mainPc' = "exit_err"
    /\ UNCHANGED <<tls_config, nBuilds, acceptErrs>>
    /\ UNCHANGED <<clientVars, localVars, wireVars, ghostVars, callVars>>

\* BuildConfig that goes on with an empty configuration when build fails
BuildConfig_IgnoreError ==
    /\ mainPc = "build"
    /\ \E native_certs \in NativeStores :
         LET r == build(native_certs)
         IN  /\ tls_config' = IF r.ok THEN r.val ELSE NoConfig
             /\ nBuilds' = IF r.ok THEN nBuilds + 1 ELSE nBuilds
    /\ mainPc' = "accept"
    /\ UNCHANGED <<listener, acceptErrs>>
    /\ UNCHANGED <<clientVars, localVars, wireVars, ghostVars, callVars>>

\* let tls_config = Arc::new(tls_config::build()?);
BuildConfig ==
    /\ mainPc = "build"
    /\ \E native_certs \in NativeStores :
         LET r == build(native_certs)
         IN  IF r.ok
             THEN /\ tls_config' = r.val
                  /\ nBuilds' = nBuilds + 1
                  /\ mainPc' = "accept"
                  /\ listener' = listener
             ELSE /\ mainPc' = "exit_err"
                  /\ listener' = "closed"
                  /\ UNCHANGED <<tls_config, nBuilds>>
    /\ UNCHANGED acceptErrs
    /\ UNCHANGED <<clientVars, localVars, wireVars, ghostVars, callVars>>

\* the connection listener.incoming() yields next: the oldest one waiting
NextQueued == CHOOSE c \in Conns : cst[c] = "queued" /\ \A d \in Conns : cst[d] = "queued" => c <= d

\* Accept that does not wait for the handler of the previous connection
Accept_Concurrent ==
    /\ mainPc \in {"accept", "handle"}
    /\ \E c \in Conns : cst[c] = "queued"
    /\ LET c == NextQueued
       IN  /\ cst' = [cst EXCEPT ![c] = "accepted"]
           /\ hpc' = [hpc EXCEPT ![c] = "read"]
           /\ cfgArg' = [cfgArg EXCEPT ![c] = tls_config]
    /\ mainPc' = "handle"
    /\ UNCHANGED <<listener, tls_config, nBuilds, acceptErrs>>
    /\ UNCHANGED <<cIn, cShut, request_str, host, tls, response>>
    /\ UNCHANGED <<wireVars, ghostVars, callVars>>

\* Accept that builds a configuration for every connection
Accept_BuildPerConnection ==
    /\ mainPc = "accept"
    /\ \E c \in Conns : cst[c] = "queued"
    /\ \E native_certs \in NativeStores :
         /\ build(native_certs).ok
         /\ tls_config' = build(native_certs).val
         /\ cfgArg' = [cfgArg EXCEPT ![NextQueued] = build(native_certs).val]
    /\ nBuilds' = nBuilds + 1
    /\ cst' = [cst EXCEPT ![NextQueued] = "accepted"]
    /\ hpc' = [hpc EXCEPT ![NextQueued] = "read"]
    /\ mainPc' = "handle"
    /\ UNCHANGED <<listener, acceptErrs>>
    /\ UNCHANGED <<cIn, cShut, request_str, host, tls, response>>
    /\ UNCHANGED <<wireVars, ghostVars, callVars>>

\* Ok(client_stream) => proxy_handler::handle_client(client_stream, tls_config.clone())
Accept ==
    /\ mainPc = "accept"
    /\ \E c \in Conns : cst[c] = "queued"
    /\ LET c == NextQueued
       IN  /\ cst' = [cst EXCEPT ![c] = "accepted"]
           /\ hpc' = [hpc EXCEPT ![c] = "read"]
           /\ cfgArg' = [cfgArg EXCEPT ![c] = tls_config]
    /\ mainPc' = "handle"
    /\ UNCHANGED <<listener, tls_config, nBuilds, acceptErrs>>
    /\ UNCHANGED <<cIn, cShut, request_str, host, tls, response>>
    /\ UNCHANGED <<wireVars, ghostVars, callVars>>

\* AcceptFail that returns the error from main
AcceptFail_Fatal ==
    /\ mainPc = "accept"
    /\ acceptErrs < MaxAcceptErrs
    /\ acceptErrs' = acceptErrs + 1
    /\ mainPc' = "exit_err"
    /\ listener' = "closed"
    /\ UNCHANGED <<tls_config, nBuilds>>
    /\ UNCHANGED <<clientVars, localVars, wireVars, ghostVars, callVars>>

\* Err(e) => eprintln!("Connection failed: {}", e)
AcceptFail ==
    /\ mainPc = "accept"
    /\ acceptErrs < MaxAcceptErrs
    /\ acceptErrs' = acceptErrs + 1
    /\ UNCHANGED <<mainPc, listener, tls_config, nBuilds>>
    /\ UNCHANGED <<clientVars, localVars, wireVars, ghostVars, callVars>>

\* ------------------------------------------------------------------------
\* The clients
\* ------------------------------------------------------------------------
ClientConnect(c) ==
    /\ listener = "bound"
    /\ mainPc # "exit_err"
    /\ cst[c] = "idle"
    /\ \A d \in Conns : d < c => cst[d] # "idle"
    /\ cst' = [cst EXCEPT ![c] = "queued"]
    /\ UNCHANGED <<cIn, cShut>>
    /\ UNCHANGED <<mainVars, localVars, wireVars, ghostVars, callVars>>

ClientSend(c, bytes) ==
    /\ cst[c] \in {"queued", "accepted"}
    /\ hpc[c] \in {"idle", "read"}
    /\ cIn[c] = <<>>
    /\ ~cShut[c]
    /\ cIn' = [cIn EXCEPT ![c] = bytes]
    /\ UNCHANGED <<cst, cShut>>
    /\ UNCHANGED <<mainVars, localVars, wireVars, ghostVars, callVars>>

\* the client closes its side without having sent a byte
ClientShutdown(c) ==
    /\ cst[c] \in {"queued", "accepted"}
    /\ hpc[c] \in {"idle", "read"}
    /\ cIn[c] = <<>>
    /\ ~cShut[c]
    /\ cShut' = [cShut EXCEPT ![c] = TRUE]
    /\ UNCHANGED <<cst, cIn>>
    /\ UNCHANGED <<mainVars, localVars, wireVars, ghostVars, callVars>>

\* ------------------------------------------------------------------------
\* proxy_handler::handle_client
\* ------------------------------------------------------------------------
\* a step fails: the ? operator leaves handle_client with the error
Fails(c, kind) ==
    /\ hpc' = [hpc EXCEPT ![c] = "err"]
    /\ result' = [result EXCEPT ![c] = kind]

\* ReadRequest that reads all that has arrived into a buffer that grows
ReadRequest_ReadAll(c) ==
    /\ cst[c] = "accepted"
    /\ hpc[c] = "read"
    /\ (cIn[c] # <<>> \/ cShut[c])
    /\ request_str' = [request_str EXCEPT ![c] = from_utf8_lossy(cIn[c])]
    /\ cIn' = [cIn EXCEPT ![c] = <<>>]
    /\ hpc' = [hpc EXCEPT ![c] = "extract"]
    /\ nReads' = [nReads EXCEPT ![c] = @ + 1]
    /\ UNCHANGED <<cst, cShut, cfgArg, host, tls, response, result, nSessions, nTcp>>
    /\ UNCHANGED <<mainVars, wireVars, callVars>>

\* let n = client_stream.read(&mut buffer)?;
\* let request_str = String::from_utf8_lossy(&buffer[..n]).to_string();
ReadRequest(c) ==
    /\ cst[c] = "accepted"
    /\ hpc[c] = "read"
    /\ \/ /\ cIn[c] # <<>> \/ cShut[c]
          /\ LET n == Min(Len(cIn[c]), BufSize)
             IN  /\ request_str' = [request_str EXCEPT ![c] = from_utf8_lossy(SubSeq(cIn[c], 1, n))]
                 /\ cIn' = [cIn EXCEPT ![c] = SubSeq(cIn[c], n + 1, Len(cIn[c]))]
          /\ hpc' = [hpc EXCEPT ![c] = "extract"]
          /\ UNCHANGED result
       \/ /\ Fails(c, "ClientReadError")
          /\ UNCHANGED <<request_str, cIn>>
    /\ nReads' = [nReads EXCEPT ![c] = @ + 1]
    /\ UNCHANGED <<cst, cShut, cfgArg, host, tls, response, nSessions, nTcp>>
    /\ UNCHANGED <<mainVars, wireVars, callVars>>

\* ExtractHost that goes on with an empty host when there is no Host line
ExtractHost_DefaultHost(c) ==
    /\ cst[c] = "accepted"
    /\ hpc[c] = "extract"
    /\ LET r == extract_host(request_str[c])
       IN  host' = [host EXCEPT ![c] = IF r.ok THEN r.val ELSE <<>>]
    /\ hpc' = [hpc EXCEPT ![c] = "connect"]
    /\ UNCHANGED <<cfgArg, request_str, tls, response, result, nSessions, nTcp, nReads>>
    /\ UNCHANGED <<mainVars, clientVars, wireVars, callVars>>

\* let host = http_parser::extract_host(&request_str)?;
ExtractHost(c) ==
    /\ cst[c] = "accepted"
    /\ hpc[c] = "extract"
    /\ LET r == extract_host(request_str[c])
       IN  IF r.ok
           THEN /\ host' = [host EXCEPT ![c] = r.val]
                /\ hpc' = [hpc EXCEPT ![c] = "connect"]
                /\ UNCHANGED result
           ELSE /\ Fails(c, "MissingHostError")
                /\ UNCHANGED host
    /\ UNCHANGED <<cfgArg, request_str, tls, response, nSessions, nTcp, nReads>>
    /\ UNCHANGED <<mainVars, clientVars, wireVars, callVars>>

\* Connect that asks for a fixed server name instead of the host
Connect_FixedName(c) ==
    /\ cst[c] = "accepted"
    /\ hpc[c] = "connect"
    /\ nTcp' = [nTcp EXCEPT ![c] = @ + 1]
    /\ tls' = [tls EXCEPT ![c] = [hs |-> "pending", server_name |-> OtherName,
                                  addr |-> host[c], port |-> HttpsPort, peer |-> NoCert]]
    /\ nSessions' = [nSessions EXCEPT ![c] = @ + 1]
    /\ hpc' = [hpc EXCEPT ![c] = "forward"]
    /\ UNCHANGED <<cfgArg, request_str, host, response, result, nReads>>
    /\ UNCHANGED <<mainVars, clientVars, wireVars, callVars>>

\* Connect whose caller drops the error of a refused connection and returns
\* Ok(())
Connect_SwallowError(c) ==
    /\ cst[c] = "accepted"
    /\ hpc[c] = "connect"
    /\ nTcp' = [nTcp EXCEPT ![c] = @ + 1]
    /\ \/ /\ hpc' = [hpc EXCEPT ![c] = "ok"]
          /\ result' = [result EXCEPT ![c] = "Ok"]
          /\ UNCHANGED <<tls, nSessions>>
       \/ /\ ValidServerName(host[c])
          /\ tls' = [tls EXCEPT ![c] = [hs |-> "pending", server_name |-> host[c],
                                        addr |-> host[c], port |-> HttpsPort,
                                        peer |-> NoCert]]
          /\ nSessions' = [nSessions EXCEPT ![c] = @ + 1]
          /\ hpc' = [hpc EXCEPT ![c] = "forward"]
          /\ UNCHANGED result
    /\ UNCHANGED <<cfgArg, request_str, host, response, nReads>>
    /\ UNCHANGED <<mainVars, clientVars, wireVars, callVars>>

\* Connect that opens the TCP connection before it validates the name
Connect_TcpFirst(c) ==
    /\ cst[c] = "accepted"
    /\ hpc[c] = "connect"
    /\ nTcp' = [nTcp EXCEPT ![c] = @ + 1]
    /\ \/ /\ Fails(c, "ConnectError")
          /\ UNCHANGED <<tls, nSessions>>
       \/ IF ~ValidServerName(host[c])
          THEN /\ Fails(c, "InvalidServerNameError")
               /\ UNCHANGED <<tls, nSessions>>
          ELSE /\ tls' = [tls EXCEPT ![c] = [hs |-> "pending", server_name |-> host[c],
                                             addr |-> host[c], port |-> HttpsPort,
                                             peer |-> NoCert]]
               /\ nSessions' = [nSessions EXCEPT ![c] = @ + 1]
               /\ hpc' = [hpc EXCEPT ![c] = "forward"]
               /\ UNCHANGED result
    /\ UNCHANGED <<cfgArg, request_str, host, response, nReads>>
    /\ UNCHANGED <<mainVars, clientVars, wireVars, callVars>>

\* let mut tls_stream = tls_connector::connect(host.clone(), tls_config)?;
\*   let server_name = ServerName::try_from(host.clone())?;
\*   let conn = ClientConnection::new(config, server_name)?;
\*   let tls_socket = TcpStream::connect((host.as_str(), 443))?;
\*   Ok(StreamOwned::new(conn, tls_socket))
Connect(c) ==
    /\ cst[c] = "accepted"
    /\ hpc[c] = "connect"
    /\ IF ~ValidServerName(host[c])
       THEN /\ Fails(c, "InvalidServerNameError")
            /\ UNCHANGED <<tls, nSessions, nTcp>>
       ELSE \/ /\ Fails(c, "TlsSetupError")
               /\ UNCHANGED <<tls, nSessions, nTcp>>
            \/ /\ nTcp' = [nTcp EXCEPT ![c] = @ + 1]
               /\ \/ /\ Fails(c, "ConnectError")
                     /\ UNCHANGED <<tls, nSessions>>
                  \/ /\ tls' = [tls EXCEPT ![c] = [hs |-> "pending", server_name |-> host[c],
                                                   addr |-> host[c], port |-> HttpsPort,
                                                   peer |-> NoCert]]
                     /\ nSessions' = [nSessions EXCEPT ![c] = @ + 1]
                     /\ hpc' = [hpc EXCEPT ![c] = "forward"]
                     /\ UNCHANGED result
    /\ UNCHANGED <<cfgArg, request_str, host, response, nReads>>
    /\ UNCHANGED <<mainVars, clientVars, wireVars, callVars>>

\* ForwardWrite that sends the request before the handshake has verified
\* the peer
ForwardWrite_DataFirst(c) ==
    /\ cst[c] = "accepted"
    /\ hpc[c] = "forward"
    /\ upOut' = [upOut EXCEPT ![c] = FormatRequest(host[c])]
    /\ \E cert \in UpstreamCerts(tls[c].server_name) :
         IF CertValid(cert, tls[c].server_name, cfgArg[c])
         THEN /\ tls' = [tls EXCEPT ![c].hs = "complete", ![c].peer = cert]
              /\ hpc' = [hpc EXCEPT ![c] = "forward_read"]
              /\ UNCHANGED result
         ELSE /\ tls' = [tls EXCEPT ![c].hs = "failed", ![c].peer = cert]
              /\ Fails(c, "HandshakeError")
    /\ UNCHANGED <<cfgArg, request_str, host, response, upSent, clientOut, nSessions, nTcp, nReads>>
    /\ UNCHANGED <<mainVars, clientVars, callVars>>

\* ForwardWrite that connects once more when the handshake fails
ForwardWrite_Reconnect(c) ==
    /\ cst[c] = "accepted"
    /\ hpc[c] = "forward"
    /\ \E cert \in UpstreamCerts(tls[c].server_name) :
         IF CertValid(cert, tls[c].server_name, cfgArg[c])
         THEN /\ tls' = [tls EXCEPT ![c].hs = "complete", ![c].peer = cert]
              /\ upOut' = [upOut EXCEPT ![c] = FormatRequest(host[c])]
              /\ hpc' = [hpc EXCEPT ![c] = "forward_read"]
              /\ UNCHANGED result
         ELSE IF nSessions[c] < 2
         THEN /\ tls' = [tls EXCEPT ![c] = NoSession]
              /\ hpc' = [hpc EXCEPT ![c] = "connect"]
              /\ UNCHANGED <<upOut, result>>
         ELSE /\ tls' = [tls EXCEPT ![c].hs = "failed", ![c].peer = cert]
              /\ Fails(c, "HandshakeError")
              /\ UNCHANGED upOut
    /\ UNCHANGED <<cfgArg, request_str, host, response, upSent, clientOut, nSessions, nTcp, nReads>>
    /\ UNCHANGED <<mainVars, clientVars, callVars>>

\* ForwardWrite called with the request text in place of the host
ForwardWrite_RequestAsHost(c) ==
    /\ cst[c] = "accepted"
    /\ hpc[c] = "forward"
    /\ \E cert \in UpstreamCerts(tls[c].server_name) :
         IF CertValid(cert, tls[c].server_name, cfgArg[c])
         THEN /\ tls' = [tls EXCEPT ![c].hs = "complete", ![c].peer = cert]
              /\ upOut' = [upOut EXCEPT ![c] = FormatRequest(request_str[c])]
              /\ hpc' = [hpc EXCEPT ![c] = "forward_read"]
              /\ UNCHANGED result
         ELSE /\ tls' = [tls EXCEPT ![c].hs = "failed", ![c].peer = cert]
              /\ Fails(c, "HandshakeError")
              /\ UNCHANGED upOut
    /\ UNCHANGED <<cfgArg, request_str, host, response, upSent, clientOut, nSessions, nTcp, nReads>>
    /\ UNCHANGED <<mainVars, clientVars, callVars>>

\* forward_request, first half:
\*   let request = format!(...); stream.write_all(request.as_bytes())?;
\* The first write on the StreamOwned completes the TLS handshake, in which
\* the peer certificate is verified, before it sends application data.
ForwardWrite(c) ==
    /\ cst[c] = "accepted"
    /\ hpc[c] = "forward"
    /\ LET request == FormatRequest(host[c])
       IN  \/ \E cert \in UpstreamCerts(tls[c].server_name) :
                IF CertValid(cert, tls[c].server_name, cfgArg[c])
                THEN /\ tls' = [tls EXCEPT ![c].hs = "complete", ![c].peer = cert]
                     /\ \/ /\ upOut' = [upOut EXCEPT ![c] = request]
                           /\ hpc' = [hpc EXCEPT ![c] = "forward_read"]
                           /\ UNCHANGED result
                        \/ \E k \in 0..(Len(request) - 1) :
                              /\ upOut' = [upOut EXCEPT ![c] = SubSeq(request, 1, k)]
                              /\ Fails(c, "WriteError")
                ELSE /\ tls' = [tls EXCEPT ![c].hs = "failed", ![c].peer = cert]
                     /\ Fails(c, "HandshakeError")
                     /\ UNCHANGED upOut
           \/ /\ tls' = [tls EXCEPT ![c].hs = "failed"]
              /\ Fails(c, "HandshakeError")
              /\ UNCHANGED upOut
    /\ UNCHANGED <<cfgArg, request_str, host, response, upSent, clientOut, nSessions, nTcp, nReads>>
    /\ UNCHANGED <<mainVars, clientVars, callVars>>

\* ForwardRead that relays the bytes to the client as they arrive
ForwardRead_Streaming(c) ==
    /\ cst[c] = "accepted"
    /\ hpc[c] = "forward_read"
    /\ \E sent \in Responses :
         /\ upSent' = [upSent EXCEPT ![c] = sent]
         /\ clientOut' = [clientOut EXCEPT ![c] = sent]
         /\ \/ /\ response' = [response EXCEPT ![c] = sent]
               /\ hpc' = [hpc EXCEPT ![c] = "write"]
               /\ UNCHANGED result
            \/ /\ Fails(c, "ReadError")
               /\ UNCHANGED response
    /\ UNCHANGED <<cfgArg, request_str, host, tls, upOut, nSessions, nTcp, nReads>>
    /\ UNCHANGED <<mainVars, clientVars, callVars>>

\* forward_request, second half:
\*   let mut response = Vec::new(); stream.read_to_end(&mut response)?; Ok(response)
ForwardRead(c) ==
    /\ cst[c] = "accepted"
    /\ hpc[c] = "forward_read"
    /\ \E sent \in Responses :
         /\ upSent' = [upSent EXCEPT ![c] = sent]
         /\ \/ /\ response' = [response EXCEPT ![c] = sent]
               /\ hpc' = [hpc EXCEPT ![c] = "write"]
               /\ UNCHANGED result
            \/ /\ Fails(c, "ReadError")
               /\ UNCHANGED response
    /\ UNCHANGED <<cfgArg, request_str, host, tls, upOut, clientOut, nSessions, nTcp, nReads>>
    /\ UNCHANGED <<mainVars, clientVars, callVars>>

\* WriteResponse with a single write in place of write_all: what the socket
\* takes of the response is written and the rest is dropped
WriteResponse_SingleWrite(c) ==
    /\ cst[c] = "accepted"
    /\ hpc[c] = "write"
    /\ \E k \in 0..Len(response[c]) :
          clientOut' = [clientOut EXCEPT ![c] = SubSeq(response[c], 1, k)]
    /\ hpc' = [hpc EXCEPT ![c] = "ok"]
    /\ result' = [result EXCEPT ![c] = "Ok"]
    /\ UNCHANGED <<cfgArg, request_str, host, tls, response, upOut, upSent, nSessions, nTcp, nReads>>
    /\ UNCHANGED <<mainVars, clientVars, callVars>>

\* client_stream.write_all(&response)?; Ok(())
WriteResponse(c) ==
    /\ cst[c] = "accepted"
    /\ hpc[c] = "write"
    /\ \/ /\ clientOut' = [clientOut EXCEPT ![c] = response[c]]
          /\ hpc' = [hpc EXCEPT ![c] = "ok"]
          /\ result' = [result EXCEPT ![c] = "Ok"]
       \/ \E k \in 0..(Len(response[c]) - 1) :
             /\ clientOut' = [clientOut EXCEPT ![c] = SubSeq(response[c], 1, k)]
             /\ Fails(c, "ClientWriteError")
    /\ UNCHANGED <<cfgArg, request_str, host, tls, response, upOut, upSent, nSessions, nTcp, nReads>>
    /\ UNCHANGED <<mainVars, clientVars, callVars>>

\* Return after which main leaves the loop when the handler ended in an error
Return_ExitOnError(c) ==
    /\ cst[c] = "accepted"
    /\ hpc[c] \in {"ok", "err"}
    /\ hpc' = [hpc EXCEPT ![c] = "returned"]
    /\ cst' = [cst EXCEPT ![c] = "closed"]
    /\ cIn' = [cIn EXCEPT ![c] = <<>>]
    /\ cShut' = [cShut EXCEPT ![c] = FALSE]
    /\ request_str' = [request_str EXCEPT ![c] = <<>>]
    /\ host' = [host EXCEPT ![c] = <<>>]
    /\ response' = [response EXCEPT ![c] = <<>>]
    /\ tls' = [tls EXCEPT ![c] = NoSession]
    /\ upOut' = [upOut EXCEPT ![c] = <<>>]
    /\ upSent' = [upSent EXCEPT ![c] = <<>>]
    /\ mainPc' = IF hpc[c] = "ok" THEN "accept" ELSE "exit_err"
    /\ listener' = IF hpc[c] = "ok" THEN listener ELSE "closed"
    /\ UNCHANGED <<tls_config, nBuilds, acceptErrs>>
    /\ UNCHANGED <<cfgArg, clientOut, ghostVars, callVars>>

\* Return that keeps the outbound session open for a later connection
Return_KeepSession(c) ==
    /\ cst[c] = "accepted"
    /\ hpc[c] \in {"ok", "err"}
    /\ hpc' = [hpc EXCEPT ![c] = "returned"]
    /\ cst' = [cst EXCEPT ![c] = "closed"]
    /\ cIn' = [cIn EXCEPT ![c] = <<>>]
    /\ cShut' = [cShut EXCEPT ![c] = FALSE]
    /\ request_str' = [request_str EXCEPT ![c] = <<>>]
    /\ host' = [host EXCEPT ![c] = <<>>]
    /\ response' = [response EXCEPT ![c] = <<>>]
    /\ upOut' = [upOut EXCEPT ![c] = <<>>]
    /\ upSent' = [upSent EXCEPT ![c] = <<>>]
    /\ mainPc' = "accept"
    /\ UNCHANGED <<listener, tls_config, nBuilds, acceptErrs>>
    /\ UNCHANGED <<tls, cfgArg, clientOut, ghostVars, callVars>>

\* handle_client returns: its locals are dropped, which closes the client
\* socket and the outbound session; main reports an error and loops
Return(c) ==
    /\ cst[c] = "accepted"
    /\ hpc[c] \in {"ok", "err"}
    /\ hpc' = [hpc EXCEPT ![c] = "returned"]
    /\ cst' = [cst EXCEPT ![c] = "closed"]
    /\ cIn' = [cIn EXCEPT ![c] = <<>>]
    /\ cShut' = [cShut EXCEPT ![c] = FALSE]
    /\ request_str' = [request_str EXCEPT ![c] = <<>>]
    /\ host' = [host EXCEPT ![c] = <<>>]
    /\ response' = [response EXCEPT ![c] = <<>>]
    /\ tls' = [tls EXCEPT ![c] = NoSession]
    /\ upOut' = [upOut EXCEPT ![c] = <<>>]
    /\ upSent' = [upSent EXCEPT ![c] = <<>>]
    /\ mainPc' = "accept"
    /\ UNCHANGED <<listener, tls_config, nBuilds, acceptErrs>>
    /\ UNCHANGED <<cfgArg, clientOut, ghostVars, callVars>>

\* ------------------------------------------------------------------------
\* Specifications
\* ------------------------------------------------------------------------
Next ==
    \/ Bind
    \/ BuildConfig
    \/ Accept
    \/ AcceptFail
    \/ \E c \in Conns : ClientConnect(c)
    \/ \E c \in Conns : \E bytes \in ClientRequests : ClientSend(c, bytes)
    \/ \E c \in Conns : ClientShutdown(c)
    \/ \E c \in Conns : ReadRequest(c)
    \/ \E c \in Conns : ExtractHost(c)
    \/ \E c \in Conns : Connect(c)
    \/ \E c \in Conns : ForwardWrite(c)
    \/ \E c \in Conns : ForwardRead(c)
    \/ \E c \in Conns : WriteResponse(c)
    \/ \E c \in Conns : Return(c)

Spec == Init /\ [][Next]_vars

\* one step of the handler that main is running
HandlerStep ==
    \E c \in Conns :
        \/ ReadRequest(c) \/ ExtractHost(c) \/ Connect(c) \/ ForwardWrite(c)
        \/ ForwardRead(c) \/ WriteResponse(c) \/ Return(c)

\* The proxy when every blocking call of the handler returns: the one thread
\* of main goes on whenever a call of the handler it runs can return. Nothing
\* is asked of the clients, nor of accept, which waits for the next client.
SpecLive == Spec /\ WF_vars(HandlerStep)

\* The calls of extract_host on their own: every request text of at most
\* MaxTokens tokens
InitHost ==
    /\ Init!1 /\ Init!2 /\ Init!3 /\ Init!4 /\ Init!5 /\ Init!6 /\ Init!7
    /\ Init!8 /\ Init!9 /\ Init!10 /\ Init!11 /\ Init!12 /\ Init!13 /\ Init!14
    /\ Init!15 /\ Init!16 /\ Init!17 /\ Init!18 /\ Init!19 /\ Init!20 /\ Init!23
    /\ Init!24 /\ Init!25 /\ Init!26
    /\ pin \in RequestTexts(MaxTokens)
    /\ pout = NotRun

CallExtractHost ==
    /\ pout = NotRun
    /\ pout' = extract_host(pin)
    /\ UNCHANGED <<pin, fwdVars>>
    /\ UNCHANGED <<mainVars, clientVars, localVars, wireVars, ghostVars>>

NextHost == CallExtractHost

SpecHost == InitHost /\ [][NextHost]_vars

\* ------------------------------------------------------------------------
\* The read of handle_client on its own: a connection has been accepted and
\* a first part of its request has arrived, the client may send a last
\* segment at any time
\* ------------------------------------------------------------------------
Pad(n) == [i \in 1..n |-> "x"]

\* what has arrived when the proxy reads
FirstSegments ==
    { \* a request line, the Host line is still to come
      <<"G", "E", "T", " ", "/", "x", " ", "H", "T", "T", "P", "/", "1", ".", "1", CR, LF>>,
      \* a whole request
      <<"H", "o", "s", "t", ":", " ", "c", CR, LF, CR, LF>>,
      \* a first line that fills the buffer, the Host line behind it
      Pad(BufSize - 2) \o <<CR, LF>> \o <<"H", "o", "s", "t", ":", " ", "c", CR, LF>>,
      \* a Host line that begins in the buffer and ends behind it
      Pad(BufSize - 9) \o <<CR, LF>> \o <<"H", "o", "s", "t", ":", " ", "a", ".", "b", CR, LF>> }

\* what the client may send last
LaterSegments ==
    { <<"H", "o", "s", "t", ":", " ", "a", ".", "b", CR, LF, CR, LF>>,
      <<CR, LF>> }

\* the configurations main can have built
BuiltConfigs == {build(n).val : n \in {m \in NativeStores : build(m).ok}}

InitRead ==
    /\ mainPc = "handle"
    /\ listener = "bound"
    /\ tls_config \in BuiltConfigs
    /\ nBuilds = 1
    /\ Init!5
    /\ cst = [c \in Conns |-> IF c = 1 THEN "accepted" ELSE "idle"]
    /\ cIn \in {[c \in Conns |-> IF c = 1 THEN seg ELSE <<>>] : seg \in FirstSegments}
    /\ Init!8
    /\ hpc = [c \in Conns |-> IF c = 1 THEN "read" ELSE "idle"]
    /\ cfgArg = [c \in Conns |-> IF c = 1 THEN tls_config ELSE NoConfig]
    /\ Init!11 /\ Init!12 /\ Init!13 /\ Init!14 /\ Init!15 /\ Init!16 /\ Init!17
    /\ Init!18 /\ Init!19 /\ Init!20 /\ Init!21 /\ Init!22 /\ Init!23
    /\ Init!24 /\ Init!25 /\ Init!26

\* the client sends its last segment and closes its sending side
ClientSendLast(c, bytes) ==
    /\ cst[c] = "accepted"
    /\ hpc[c] \notin {"ok", "err"}
    /\ ~cShut[c]
    /\ cIn' = [cIn EXCEPT ![c] = @ \o bytes]
    /\ cShut' = [cShut EXCEPT ![c] = TRUE]
    /\ UNCHANGED cst
    /\ UNCHANGED <<mainVars, localVars, wireVars, ghostVars, callVars>>

NextRead ==
    \/ \E c \in Conns : \E bytes \in LaterSegments : ClientSendLast(c, bytes)
    \/ \E c \in Conns : ReadRequest(c)
    \/ \E c \in Conns : ExtractHost(c)
    \/ \E c \in Conns : Connect(c)
    \/ \E c \in Conns : ForwardWrite(c)
    \/ \E c \in Conns : ForwardRead(c)
    \/ \E c \in Conns : WriteResponse(c)
    \/ \E c \in Conns : Return(c)

SpecRead == InitRead /\ [][NextRead]_vars

\* ------------------------------------------------------------------------
\* Two calls of forward_request with the same host, each on a fresh session
\* to an upstream that sends the same response
\* ------------------------------------------------------------------------
\* the hosts for which connect can return a session
ForwardHosts ==
    {extract_host(from_utf8_lossy(r)).val :
        r \in {q \in ClientRequests :
                  /\ extract_host(from_utf8_lossy(q)).ok
                  /\ ValidServerName(extract_host(from_utf8_lossy(q)).val)}}

InitForward ==
    /\ Init!1 /\ Init!2 /\ Init!3 /\ Init!4 /\ Init!5 /\ Init!6 /\ Init!7
    /\ Init!8 /\ Init!9 /\ Init!10 /\ Init!11 /\ Init!12 /\ Init!13 /\ Init!14
    /\ Init!15 /\ Init!16 /\ Init!17 /\ Init!18 /\ Init!19 /\ Init!20
    /\ Init!21 /\ Init!22 /\ Init!23
    /\ fhost \in ForwardHosts
    /\ fresp \in Responses
    /\ frun = [i \in Runs |-> FreshRun]

\* let request = format!(...); stream.write_all(request.as_bytes())?;
\* the handshake fails and nothing is sent, or the write fails midway, or
\* the whole request is sent
RunWrite(i) ==
    /\ frun[i].pc = "write"
    /\ LET request == FormatRequest(fhost)
       IN  \/ frun' = [frun EXCEPT ![i].pc = "read", ![i].sent = request]
           \/ \E k \in 0..(Len(request) - 1) :
                 frun' = [frun EXCEPT ![i].pc = "err", ![i].sent = SubSeq(request, 1, k)]
    /\ UNCHANGED <<pin, pout, fhost, fresp>>
    /\ UNCHANGED <<mainVars, clientVars, localVars, wireVars, ghostVars>>

\* RunRead with a single read in place of read_to_end: the buffer holds what
\* the first read returned
RunRead_SingleRead(i) ==
    /\ frun[i].pc = "read"
    /\ \E k \in 0..Len(fresp) :
          frun' = [frun EXCEPT ![i].pc = "ok", ![i].ret = SubSeq(fresp, 1, k)]
    /\ UNCHANGED <<pin, pout, fhost, fresp>>
    /\ UNCHANGED <<mainVars, clientVars, localVars, wireVars, ghostVars>>

\* let mut response = Vec::new(); stream.read_to_end(&mut response)?; Ok(response)
\* all the upstream sent up to the end of the stream, or the error
RunRead(i) ==
    /\ frun[i].pc = "read"
    /\ \/ frun' = [frun EXCEPT ![i].pc = "ok", ![i].ret = fresp]
       \/ frun' = [frun EXCEPT ![i].pc = "err"]
    /\ UNCHANGED <<pin, pout, fhost, fresp>>
    /\ UNCHANGED <<mainVars, clientVars, localVars, wireVars, ghostVars>>

NextForward ==
    \/ \E i \in Runs : RunWrite(i)
    \/ \E i \in Runs : RunRead(i)

SpecForward == InitForward /\ [][NextForward]_vars

\* ------------------------------------------------------------------------
\* Properties of extract_host (checked under SpecHost)
\* ------------------------------------------------------------------------
\* the lines of a text that begin with the marker, whatever its letter case
HostLines(text) ==
    {i \in 1..Len(lines(text)) : starts_with(to_lowercase(lines(text)[i]), HostMarkerLower)}

FirstHostLine(text) ==
    lines(text)[CHOOSE i \in HostLines(text) : \A j \in HostLines(text) : i <= j]

\* the text that follows the five characters of the marker
AfterMarker(line) == SubSeq(line, Len(HostMarkerLower) + 1, Len(line))

\* C1: for every request text with at least one line that begins, in any
\* letter case, with Host:, extract_host returns the text after the marker
\* on the first such line, with surrounding whitespace removed.
C1_FirstHostValue ==
    (pout # NotRun /\ HostLines(pin) # {}) =>
        pout = Ok(trim(AfterMarker(FirstHostLine(pin))))

\* ------------------------------------------------------------------------
\* Properties of the proxy (checked under Spec)
\* ------------------------------------------------------------------------
\* handle_client has been called for the connection and has not returned
InFlight(c) == hpc[c] \notin {"idle", "returned"}

\* the positions of handle_client at which the host has been extracted
HostKnown == {"connect", "forward", "forward_read", "write", "ok"}

\* the positions of handle_client after a successful write of the request
RequestWritten == {"forward_read", "write", "ok"}

\* the certificate is acceptable for the host under the configuration: it
\* chains to a trusted root and names the host
ValidFor(cert, h, config) == cert.issuer \in config.roots /\ cert.subject = h

\* C2 (as stated): whenever connect has returned Ok, the handshake with the
\* upstream has completed.
C2_ConnectReturnsHandshaken ==
    \A c \in Conns : hpc[c] = "forward" => tls[c].hs = "complete"

\* C2 (amended): connect returns a session on which no handshake has taken
\* place; the handshake completes in the first write of forward_request,
\* before any application byte is sent or received, only with a peer
\* certificate that chains to a trusted root and names the extracted host,
\* and a failed handshake is the error of forward_request with no
\* application byte exchanged.
C2_HandshakeInFirstWrite ==
    \A c \in Conns :
        /\ hpc[c] = "forward" => tls[c].hs = "pending" /\ tls[c].peer = NoCert
        /\ (upOut[c] # <<>> \/ upSent[c] # <<>> \/ hpc[c] \in RequestWritten) =>
               /\ tls[c].hs = "complete"
               /\ ValidFor(tls[c].peer, host[c], tls_config)
        /\ tls[c].hs = "failed" =>
               /\ hpc[c] = "err" /\ result[c] = "HandshakeError"
               /\ upOut[c] = <<>> /\ upSent[c] = <<>>

C2_Witness ==
    \E c \in Conns :
        /\ hpc[c] = "forward_read"
        /\ tls[c].hs = "complete"
        /\ upOut[c] # <<>>

\* C3: when the upstream accepts the TCP connection but presents a
\* certificate that is not valid for the extracted host, the handshake
\* fails, no byte of the request reaches the upstream as application data,
\* handle_client ends with the error and the client has been written
\* nothing, also once its socket is closed.
C3_BadCertificateNothingForwarded ==
    \A c \in Conns :
        /\ (tls[c].peer # NoCert /\ ~ValidFor(tls[c].peer, host[c], tls_config)) =>
               /\ tls[c].hs = "failed"
               /\ hpc[c] = "err" /\ result[c] = "HandshakeError"
               /\ upOut[c] = <<>>
               /\ clientOut[c] = <<>>
        /\ result[c] = "HandshakeError" =>
               /\ hpc[c] \in {"err", "returned"}
               /\ upOut[c] = <<>>
               /\ clientOut[c] = <<>>
               /\ hpc[c] = "returned" => cst[c] = "closed"

C3_Witness ==
    \E c \in Conns :
        /\ hpc[c] = "err"
        /\ nTcp[c] = 1
        /\ tls[c].peer.issuer \in tls_config.roots
        /\ tls[c].peer.subject = OtherName
        /\ tls[c].hs = "failed"

\* C4: a request without a Host line, an empty read included, makes
\* handle_client fail at the extraction of the host: no outbound TCP
\* connection or session is attempted and the client is written nothing,
\* also once its socket is closed.
C4_NoHostNoConnection ==
    \A c \in Conns :
        /\ (hpc[c] \in HostKnown \cup {"extract"}
              \/ (hpc[c] = "err" /\ result[c] # "ClientReadError")) =>
              (HostLines(request_str[c]) = {} =>
                  /\ hpc[c] \in {"extract", "err"}
                  /\ hpc[c] = "err" => result[c] = "MissingHostError"
                  /\ nTcp[c] = 0 /\ nSessions[c] = 0 /\ tls[c] = NoSession
                  /\ upOut[c] = <<>> /\ clientOut[c] = <<>>)
        /\ result[c] = "MissingHostError" =>
              /\ nTcp[c] = 0 /\ nSessions[c] = 0 /\ tls[c] = NoSession
              /\ upOut[c] = <<>> /\ clientOut[c] = <<>>
              /\ hpc[c] \in {"err", "returned"}
              /\ hpc[c] = "returned" => cst[c] = "closed"

C4_Witness ==
    \E c \in Conns :
        /\ hpc[c] = "err"
        /\ result[c] = "MissingHostError"
        /\ request_str[c] = <<>>

\* C5 (as stated): a failure of any step, the write of the response
\* included, leaves the client with zero bytes.
C5_NoPartialResponse ==
    \A c \in Conns : result[c] \notin {"none", "Ok"} => clientOut[c] = <<>>

\* C5 (amended): a failure of a step before the write of the response
\* leaves the client with zero bytes; a failure of the write of the response
\* may leave a proper prefix of the upstream response at the client; nothing
\* is written before the write step and a success leaves the whole response.
C5_OnlyWriteFailureLeavesPrefix ==
    \A c \in Conns :
        /\ result[c] \notin {"none", "Ok", "ClientWriteError"} => clientOut[c] = <<>>
        /\ hpc[c] \in {"idle", "read", "extract", "connect", "forward", "forward_read", "write"} =>
               clientOut[c] = <<>>
        /\ (hpc[c] = "err" /\ result[c] = "ClientWriteError") =>
               /\ IsPrefix(clientOut[c], response[c])
               /\ Len(clientOut[c]) < Len(response[c])
        /\ hpc[c] = "ok" => clientOut[c] = response[c] /\ result[c] = "Ok"

C5_Witness ==
    \E c \in Conns :
        /\ hpc[c] = "err"
        /\ result[c] = "ClientWriteError"
        /\ clientOut[c] # <<>>

\* C6: an inbound connection has at most one outbound session; the session
\* exists only once the host has been extracted from the request, and
\* request bytes reach the upstream only over that session, established.
C6_OneSessionAfterHostBeforeWrite ==
    \A c \in Conns :
        /\ nSessions[c] <= 1
        /\ tls[c] # NoSession =>
               /\ nSessions[c] = 1
               /\ extract_host(request_str[c]).ok
               /\ hpc[c] \in {"forward", "forward_read", "write", "ok", "err"}
        /\ hpc[c] \in {"idle", "read", "extract", "connect"} =>
               nSessions[c] = 0 /\ tls[c] = NoSession
        /\ upOut[c] # <<>> =>
               nSessions[c] = 1 /\ tls[c].hs = "complete"

C6_Witness ==
    \E c \in Conns :
        /\ nSessions[c] = 1
        /\ upOut[c] # <<>>
        /\ hpc[c] = "write"

\* C7: at most one handle_client is in flight; while one is, no later
\* connection has been accepted, has had a byte of its request read or has
\* had an outbound connection opened; connections are handled in the
\* order of their arrival.
C7_OneHandlerAtATime ==
    /\ \A c, d \in Conns : (InFlight(c) /\ InFlight(d)) => c = d
    /\ \A c, d \in Conns :
          (c < d /\ hpc[c] # "returned") =>
              /\ hpc[d] = "idle"
              /\ cst[d] \in {"idle", "queued"}
              /\ request_str[d] = <<>>
              /\ nTcp[d] = 0 /\ nSessions[d] = 0
    /\ (\E c \in Conns : InFlight(c)) <=> mainPc = "handle"

C7_Witness ==
    \E c, d \in Conns :
        /\ c < d
        /\ hpc[c] = "forward_read"
        /\ cst[d] = "queued"
        /\ cIn[d] # <<>>

\* C8: once the accept loop has started, a step never ends the process or
\* the loop: a failed accept leaves main at the next accept, and a
\* handle_client that returns, with an error too, leaves main at the next
\* accept with the listener open.
C8_LoopSurvivesErrors ==
    [][ /\ mainPc \in {"accept", "handle"} =>
              mainPc' \in {"accept", "handle"} /\ listener' = "bound"
        /\ acceptErrs' # acceptErrs => mainPc' = "accept"
        /\ \A c \in Conns :
              (hpc[c] \in {"ok", "err"} /\ hpc'[c] # hpc[c]) =>
                  hpc'[c] = "returned" /\ mainPc' = "accept"
      ]_vars

\* after a failed accept and a failed connection a later one is served
C8_Witness ==
    \E c, d \in Conns :
        /\ c < d
        /\ acceptErrs > 0
        /\ result[c] \notin {"none", "Ok"}
        /\ result[d] = "Ok"

\* C9: when main has ended with a startup error no connection has been
\* accepted or handled, and every handle_client that was ever called got
\* the one successfully built configuration, over a bound listener.
C9_StartupFailureBeforeAccept ==
    /\ mainPc = "exit_err" =>
          /\ \A c \in Conns : hpc[c] = "idle" /\ cst[c] \in {"idle", "queued"}
          /\ nBuilds = 0
    /\ mainPc \in {"bind", "build"} =>
          \A c \in Conns : hpc[c] = "idle" /\ cst[c] \in {"idle", "queued"}
    /\ \A c \in Conns :
          hpc[c] # "idle" =>
              /\ cfgArg[c].built
              /\ cfgArg[c] = tls_config
              /\ nBuilds = 1
              /\ listener = "bound"

C9_Witness ==
    /\ mainPc = "exit_err"
    /\ listener = "closed"
    /\ \E c \in Conns : cst[c] = "queued"

\* the wire format of the outbound request
WireRequest(h) ==
    <<"G", "E", "T", " ", "/", " ", "H", "T", "T", "P", "/", "1", ".", "1", CR, LF>>
    \o <<"H", "o", "s", "t", ":", " ">> \o h \o <<CR, LF>>
    \o <<"C", "o", "n", "n", "e", "c", "t", "i", "o", "n", ":", " ", "c", "l", "o", "s", "e", CR, LF>>
    \o <<CR, LF>>

\* C10: the bytes that reach the upstream are at any time a prefix of
\* GET / HTTP/1.1, Host: <host>, Connection: close and a blank line, with
\* <host> the host extracted from the request read, and are exactly these
\* bytes once the write has succeeded, whatever else the request holds.
C10_FixedOutboundRequest ==
    \A c \in Conns :
        /\ upOut[c] # <<>> =>
               /\ extract_host(request_str[c]).ok
               /\ IsPrefix(upOut[c], WireRequest(extract_host(request_str[c]).val))
        /\ hpc[c] \in RequestWritten =>
               upOut[c] = WireRequest(extract_host(request_str[c]).val)

C10_Witness ==
    \E c \in Conns :
        /\ hpc[c] = "forward_read"
        /\ request_str[c] # <<>> /\ request_str[c][1] = "P"
        /\ upOut[c] = WireRequest(<<"a", ".", "b">>)

\* C11: when handle_client succeeds, the bytes written to the client socket
\* are the bytes the upstream sent before it closed, in the same order, none
\* added, dropped or altered.
C11_ResponseRelayedVerbatim ==
    \A c \in Conns :
        hpc[c] = "ok" =>
            /\ result[c] = "Ok"
            /\ clientOut[c] = upSent[c]
            /\ tls[c].hs = "complete"

C11_Witness ==
    \E c \in Conns :
        /\ hpc[c] = "ok"
        /\ upSent[c] = <<"p", "q">>
        /\ clientOut[c] = <<"p", "q">>

\* the steps of handle_client in their order: a position, the position the
\* success of its step leads to (the two halves of forward_request are the
\* step Forward)
StepOrder ==
    { <<"idle", "read">>, <<"read", "extract">>, <<"extract", "connect">>,
      <<"connect", "forward">>, <<"forward", "forward_read">>,
      <<"forward_read", "write">>, <<"write", "ok">>, <<"ok", "returned">> }

\* the abort of a step and the return of the error
AbortOrder ==
    { <<"read", "err">>, <<"extract", "err">>, <<"connect", "err">>,
      <<"forward", "err">>, <<"forward_read", "err">>, <<"write", "err">>,
      <<"err", "returned">> }

\* C12: handle_client moves only along ReadRequest, ExtractHost, Connect,
\* Forward, WriteResponse, Done: a position is left for the next one in this
\* order or, on the failure of its step, for the error; none is repeated or
\* skipped, Done is reached only from a successful WriteResponse, and a
\* failed step records its error while a successful one records none.
C12_LinearStepOrder ==
    [][ \A c \in Conns :
          hpc'[c] # hpc[c] =>
              /\ <<hpc[c], hpc'[c]>> \in StepOrder \cup AbortOrder
              /\ hpc'[c] = "ok" => (hpc[c] = "write" /\ result'[c] = "Ok"
                                      /\ clientOut'[c] = response[c])
              /\ hpc'[c] = "err" => result'[c] \notin {"none", "Ok"}
              /\ hpc'[c] \notin {"ok", "err", "returned"} => result'[c] = "none"
      ]_vars

C12_Witness ==
    \E c \in Conns : hpc[c] = "ok" /\ result[c] = "Ok" /\ nSessions[c] = 1

\* C14 (as stated): connect validates the name, opens the TCP connection and
\* performs the TLS handshake, in this order, before it returns.
C14_HandshakeInsideConnect ==
    [][ \A c \in Conns :
          (hpc[c] = "connect" /\ hpc'[c] # "connect") =>
              /\ ~ValidServerName(host[c]) => (hpc'[c] = "err" /\ nTcp'[c] = 0)
              /\ hpc'[c] = "forward" => (nTcp'[c] = 1 /\ tls'[c].hs = "complete")
      ]_vars

\* C14 (amended): connect validates the name, creates the client connection
\* and opens the TCP connection to the host on port 443, in this order, and
\* returns without a handshake, which is left to the first write of
\* forward_request: a name that is not acceptable, or a connection state
\* that cannot be created, fails connect before any TCP connection is
\* opened, a session exists only over an opened TCP connection, and the
\* handshake takes place only after connect has returned.
C14_ConnectStepOrder ==
    \A c \in Conns :
        /\ result[c] \in {"InvalidServerNameError", "TlsSetupError"} =>
               nTcp[c] = 0 /\ nSessions[c] = 0 /\ tls[c] = NoSession
        /\ (hpc[c] = "err" /\ result[c] = "InvalidServerNameError") =>
               ~ValidServerName(host[c])
        /\ (InFlight(c) /\ nTcp[c] > 0) => ValidServerName(host[c])
        /\ (hpc[c] \in HostKnown \ {"connect"}) => ValidServerName(host[c])
        /\ nTcp[c] <= 1
        /\ tls[c] # NoSession =>
               /\ nTcp[c] = 1
               /\ tls[c].port = 443
        /\ hpc[c] = "forward" => tls[c].hs = "pending"
        /\ tls[c].hs \in {"complete", "failed"} =>
               hpc[c] \in {"forward_read", "write", "ok", "err"}

C14_Witness ==
    \E c \in Conns :
        /\ hpc[c] = "err"
        /\ result[c] = "InvalidServerNameError"
        /\ host[c] # <<>>
        /\ nTcp[c] = 0

\* C15: when handle_client has returned, with success or with an error, the
\* client socket is closed and no outbound session of the connection is
\* left; a session belongs to the connection being handled only, and at
\* every accept no earlier connection has a socket or a session open.
C15_NothingOpenAfterReturn ==
    /\ \A c \in Conns :
          /\ hpc[c] = "returned" => (cst[c] = "closed" /\ tls[c] = NoSession)
          /\ tls[c] # NoSession => (cst[c] = "accepted" /\ InFlight(c))
          /\ cst[c] = "accepted" <=> InFlight(c)
    /\ mainPc = "accept" =>
          \A c \in Conns : cst[c] # "accepted" /\ tls[c] = NoSession

C15_Witness ==
    /\ mainPc = "accept"
    /\ \E c \in Conns :
          /\ hpc[c] = "returned"
          /\ nSessions[c] = 1
          /\ result[c] = "ReadError"

\* C17: the configuration is built once, before the first accept; once
\* built it never changes, and every handle_client gets this configuration.
C17_OneConfigForAll ==
    [][ /\ tls_config.built => tls_config' = tls_config
        /\ nBuilds' <= 1
        /\ nBuilds' # nBuilds =>
              (mainPc = "build" /\ \A c \in Conns : hpc[c] = "idle")
        /\ \A c \in Conns :
              hpc'[c] # "idle" =>
                  /\ nBuilds' = 1
                  /\ tls_config'.built
                  /\ cfgArg'[c] = tls_config'
      ]_vars

C17_Witness ==
    \E c, d \in Conns :
        /\ c < d
        /\ hpc[c] = "returned"
        /\ hpc[d] = "connect"
        /\ cfgArg[c] = cfgArg[d]
        /\ cfgArg[d].built

\* the value of the Host header of an outbound request: its second line
\* without the six characters of Host: and the space
HostHeaderOf(bytes) ==
    LET ls == lines(bytes)
    IN  IF Len(ls) < 2 THEN <<"?">> ELSE SubSeq(ls[2], 7, Len(ls[2]))

\* C18: within a handle_client the string extract_host returned is, as it
\* is, the local host, the server name of the session, the address of the
\* TCP connection, made to port 443, and the value of the Host header of
\* the request sent.
C18_OneHostEverywhere ==
    \A c \in Conns :
        LET r == extract_host(request_str[c])
        IN  /\ hpc[c] \in HostKnown => (r.ok /\ host[c] = r.val)
            /\ tls[c] # NoSession =>
                   /\ r.ok
                   /\ tls[c].server_name = r.val
                   /\ tls[c].addr = r.val
                   /\ tls[c].port = 443
            /\ hpc[c] \in RequestWritten =>
                   /\ starts_with(lines(upOut[c])[2], <<"H", "o", "s", "t", ":", " ">>)
                   /\ HostHeaderOf(upOut[c]) = r.val

C18_Witness ==
    \E c \in Conns :
        /\ hpc[c] = "forward_read"
        /\ tls[c].server_name = <<"c">>
        /\ tls[c].addr = <<"c">>
        /\ HostHeaderOf(upOut[c]) = <<"c">>

\* ------------------------------------------------------------------------
\* Properties of the read (checked under SpecRead)
\* ------------------------------------------------------------------------
\* C16: handle_client reads the client socket once, at its read step, and
\* takes the first BufSize bytes at most of what has arrived; what lies
\* behind them or arrives later is never taken from the socket, and the
\* host comes from the chunk read alone: without a Host line in it the
\* extraction fails, whatever the rest holds.
C16_OneBoundedRead ==
    [][ \A c \in Conns :
          /\ nReads'[c] <= 1
          /\ hpc'[c] \notin {"idle", "read"} => nReads'[c] = 1
          /\ nReads'[c] # nReads[c] =>
                /\ hpc[c] = "read"
                /\ hpc'[c] = "extract" =>
                      /\ request_str'[c] =
                            from_utf8_lossy(SubSeq(cIn[c], 1, Min(Len(cIn[c]), 4096)))
                      /\ cIn[c] = SubSeq(cIn[c], 1, Len(request_str'[c])) \o cIn'[c]
          /\ Len(request_str'[c]) <= 4096
          /\ (nReads[c] = 1 /\ hpc'[c] # "returned") => IsPrefix(cIn[c], cIn'[c])
          /\ request_str'[c] # request_str[c] => (hpc[c] = "read" \/ hpc'[c] = "returned")
          /\ (hpc'[c] \in HostKnown \cup {"err"} /\ result'[c] # "ClientReadError") =>
                IF HostLines(request_str'[c]) = {}
                THEN hpc'[c] = "err" /\ result'[c] = "MissingHostError"
                ELSE result'[c] # "MissingHostError"
      ]_vars

C16_Witness ==
    \E c \in Conns :
        /\ hpc[c] = "err"
        /\ result[c] = "MissingHostError"
        /\ nReads[c] = 1
        /\ Len(request_str[c]) = 4096
        /\ HostLines(from_utf8_lossy(cIn[c])) # {}

C19_HandlerTerminates ==
    /\ \A c \in Conns :
          (hpc[c] = "read") ~>
              (hpc[c] = "returned" /\ result[c] # "none" /\ mainPc = "accept")
    /\ [](\A c, d \in Conns :
            (c < d /\ hpc[c] \notin {"idle", "returned"}) => hpc[d] = "idle")

C19_Witness ==
    /\ hpc[1] = "returned" /\ result[1] = "Ok"
    /\ cst[2] = "accepted" /\ hpc[2] = "forward_read"
====
